---- MODULE Spec2Model ----
(***************************************************************************)
(* A model of the Player facade of lordicondev/player-web (src/player.ts): *)
(* marker parsing and state selection in the constructor, the renderer     *)
(* lifecycle (init/destroy), the transport operations, and the property    *)
(* setters, on top of a small model of the external renderer instance.     *)
(*                                                                         *)
(* A JavaScript string is a sequence of text atoms; the atom ":" is the    *)
(* separator character, every other atom stands for a piece of text        *)
(* without a colon.                                                        *)
(***************************************************************************)
EXTENDS Integers, Sequences, FiniteSets, TLC

VARIABLES
    pc,                  \* "new" before the constructor ran, then "constructed"
    data,                \* the document the caller supplies (LottieData)
    properties,          \* the constructor's 'properties' argument
    _iconData,           \* Player._iconData
    _initialProperties,  \* Player._initialProperties
    _availableStates,    \* Player._availableStates
    _state,              \* Player._state: <<>> (undefined) or <<IconState>>
    _lottieInstance,     \* Player._lottieInstance: 0 (undefined) or an index of lottie
    _ready,              \* Player._ready
    _direction,          \* Player._direction
    _speed,              \* Player._speed
    _lottieProperties,   \* Player._lottieProperties: <<>> (undefined) or <<catalog>>
    _colorsProxy,        \* Player._colorsProxy exists
    _eventHandlers,      \* Player._eventHandlers: per event name, the handlers in order
    lottie,              \* every renderer instance loadAnimation has returned
    calls,               \* renderer calls made by the last operation, in order
    err,                 \* the error the last operation threw ("" when it returned)
    invoked,             \* handlers the last operation invoked, in order, as <<name, handler>>
    last                 \* the last operation and its argument

vars == << pc, data, properties, _iconData, _initialProperties, _availableStates,
           _state, _lottieInstance, _ready, _direction, _speed, _lottieProperties,
           _colorsProxy, _eventHandlers, lottie, calls, err, invoked, last >>

-----------------------------------------------------------------------------
(* Bounds *)

MaxMarkers == 2     \* markers per document (Spec)
MaxCmLen == 5       \* atoms per marker name (SpecParse)
MaxInits == 2       \* renderer instances loaded in one behaviour
MaxHandlers == 3    \* registrations of event handlers at one time (SpecEvents)

-----------------------------------------------------------------------------
(* JavaScript values *)

Undefined == <<"undefined">>
Null == <<"null">>
EmptyString == <<>>
Colon == ":"

NoError == ""
ErrAlreadyConnected == "Already connected player!"
ErrNotConnected == "Not connected player!"
ErrNotInitialized == "Player not initialized"
ErrUnsupportedFlag == "Unsupported state flag"
ErrTypeError == "TypeError"

isNil(value) == value = Null \/ value = Undefined

\* A document is an object: 'ref' tells the objects apart.  The document the
\* caller passes is object 0, and every deep clone is an object of its own.
\* The clone that hands back the object it was given.
deepClone_sameObject(value) == value

\* deepClone(value): structuredClone
deepClone(value) == [value EXCEPT !.ref = @ + 1]

\* JavaScript truthiness of a string-or-nil value.
Truthy(value) == ~isNil(value) /\ value # EmptyString

\* Array.prototype.filter
Filter(s, Test(_)) == SelectSeq(s, Test)

\* The first element of an array as an optional value: <<>> for undefined.
First(s) == IF s = <<>> THEN <<>> ELSE <<s[1]>>

\* String.prototype.split(':')
Split(s) ==
    LET RECURSIVE go(_, _, _)
        go(i, cur, acc) ==
            IF i > Len(s) THEN Append(acc, cur)
            ELSE IF s[i] = Colon THEN go(i + 1, <<>>, Append(acc, cur))
            ELSE go(i + 1, Append(cur, s[i]), acc)
    IN go(1, <<>>, <<>>)

-----------------------------------------------------------------------------
(* Marker parsing and state selection: the constructor *)

SUPPORTED_STATE_FLAGS_withBogus == { <<"default">>, <<"bogus">> }

SUPPORTED_STATE_FLAGS == { <<"default">> }

\* An 'if' in place of the 'while': at most one flag is consumed.
FlagCount_once(parts) ==
    IF parts # <<>> /\ Head(parts) \in SUPPORTED_STATE_FLAGS THEN 1 ELSE 0

\* The number of leading tokens the 'while' loop consumes.
RECURSIVE FlagCount(_)
FlagCount(parts) ==
    IF parts # <<>> /\ Head(parts) \in SUPPORTED_STATE_FLAGS
    THEN 1 + FlagCount(Tail(parts))
    ELSE 0

\* The 'switch' on a consumed flag token: "default" sets the flag, any other
\* token reaches the 'default:' branch and throws.
FlagThrows(token) == token # <<"default">>

\* One marker {cm, tm, dr} mapped to an IconState; 'throws' records that the
\* switch threw while the flags were read.
parseMarker(c) ==
    LET parts == Split(c.cm)
        n == FlagCount(parts)
        rest == SubSeq(parts, n + 1, Len(parts))
    IN [ throws |-> \E i \in 1..n : FlagThrows(parts[i]),
         newState |->
           [ time |-> c.tm,
             duration |-> c.dr,
             name |-> IF rest = <<>> THEN Undefined ELSE rest[1],
             default |-> \E i \in 1..n : parts[i] = <<"default">>,
             params |-> IF rest = <<>> THEN <<>> ELSE Tail(rest) ] ]

\* this._state after the map callback has run on markers[1..i].
RECURSIVE selectInMap(_, _, _)
selectInMap(markers, requested, i) ==
    IF i = 0 THEN <<>>
    ELSE LET newState == parseMarker(markers[i]).newState
         IN IF newState.name = requested THEN <<newState>>
            ELSE IF newState.default /\ isNil(requested) THEN <<newState>>
            ELSE selectInMap(markers, requested, i - 1)

isValidState_nonNegative(c) == c.duration >= 0

isValidState(c) == c.duration > 0

isDefaultState(c) == c.default

\* (data.markers || []).map(...).filter(c => c.duration > 0)
parseAvailableStates(markers) ==
    Filter([i \in 1..Len(markers) |-> parseMarker(markers[i]).newState], isValidState)

\* this._availableStates.filter(c => c.default)[0]
defaultState(states) == First(Filter(states, isDefaultState))

\* this._availableStates.filter(c => c.name === state)[0]
stateByName(states, name) ==
    LET hasName(c) == c.name = name IN First(Filter(states, hasName))

\* The state selected when the constructor is done with the markers.
constructorState(markers, requested) ==
    LET states == parseAvailableStates(markers)
        inMap == selectInMap(markers, requested, Len(markers))
    IN IF states # <<>> /\ Truthy(requested) /\ inMap = <<>>
       THEN defaultState(states)
       ELSE inMap

constructorThrows(markers) ==
    \E i \in 1..Len(markers) : parseMarker(markers[i]).throws

\* get state(): the selected state's name, or ''.
stateGetter(st) == IF st # <<>> THEN st[1].name ELSE EmptyString

\* The segment without the frame added to include the marker's last frame.
stateSegment_exclusive(s) == << s.time, s.time + s.duration >>

\* [state.time, state.time + state.duration + 1]
stateSegment(s) == << s.time, s.time + s.duration + 1 >>

-----------------------------------------------------------------------------
(* The external renderer (@lordicon/internal): one animation instance *)

\* lottie.loadAnimation with autoplay: false and loop: false.  'segment' is
\* the optional initialSegment, 'animationData' the document handed over.
loadAnimation(segment, animationData, loaded) ==
    [ isLoaded |-> loaded,
      configReady |-> FALSE,
      destroyed |-> FALSE,
      isPaused |-> TRUE,
      loop |-> FALSE,
      playDirection |-> 1,
      playSpeed |-> 1,
      currentFrame |-> 0,
      firstFrame |-> IF segment # <<>> THEN segment[1][1] ELSE animationData.ip,
      totalFrames |-> IF segment # <<>> THEN segment[1][2] - segment[1][1]
                      ELSE animationData.op - animationData.ip,
      animationData |-> animationData ]

lottie_play(r) == [r EXCEPT !.isPaused = FALSE]

lottie_pause(r) == [r EXCEPT !.isPaused = TRUE]

lottie_stop(r) == [r EXCEPT !.isPaused = TRUE, !.currentFrame = 0]

lottie_goToAndStop(r, value) == [r EXCEPT !.currentFrame = value, !.isPaused = TRUE]

lottie_goToAndPlay(r, value) == [r EXCEPT !.currentFrame = value, !.isPaused = FALSE]

lottie_setDirection(r, direction) == [r EXCEPT !.playDirection = direction]

lottie_setSpeed(r, speed) == [r EXCEPT !.playSpeed = speed]

\* A paused instance whose frame lies outside the new segment is moved into it.
lottie_setSegment(r, init, end) ==
    LET pendingFrame ==
            IF r.isPaused /\ r.currentFrame + r.firstFrame < init THEN init
            ELSE IF r.isPaused /\ r.currentFrame + r.firstFrame > end THEN end - init
            ELSE -1
        s == [r EXCEPT !.firstFrame = init, !.totalFrames = end - init]
    IN IF pendingFrame # -1 THEN lottie_goToAndStop(s, pendingFrame) ELSE s

\* The renderer adopts a segment at once (forceFlag): an ascending segment
\* plays forward from its first frame, a descending one backward from its last.
lottie_adjustSegment(r, arr) ==
    IF arr[2] < arr[1]
    THEN [r EXCEPT !.playDirection = -1, !.totalFrames = arr[1] - arr[2],
                   !.firstFrame = arr[2], !.currentFrame = arr[1] - arr[2]]
    ELSE IF arr[2] > arr[1]
    THEN [r EXCEPT !.playDirection = 1, !.totalFrames = arr[2] - arr[1],
                   !.firstFrame = arr[1], !.currentFrame = 0]
    ELSE r

lottie_resetSegments(r) ==
    lottie_adjustSegment(r, << r.animationData.ip, r.animationData.op >>)

lottie_playSegments(r, segment) == lottie_play(lottie_adjustSegment(r, segment))

lottie_getDuration(r) == r.totalFrames

\* A destroyed instance has released everything it held.
lottie_destroy(r) ==
    [ isLoaded |-> FALSE, configReady |-> FALSE, destroyed |-> TRUE, isPaused |-> TRUE,
      loop |-> FALSE, playDirection |-> 1, playSpeed |-> 1, currentFrame |-> 0,
      firstFrame |-> 0, totalFrames |-> 0,
      animationData |-> [ ref |-> 0, markers |-> <<>>, ip |-> 0, op |-> 0,
                          controls |-> <<>>, vals |-> <<>> ] ]

\* destroy() of a renderer that was still loading and does not cancel the
\* config_ready it has yet to report.
lottie_destroy_pending(r) == [lottie_destroy(r) EXCEPT !.configReady = r.configReady]

\* One step of the renderer's clock on a playing, loaded instance.
lottie_advanceTime(r) ==
    LET nextValue == r.currentFrame + r.playSpeed * r.playDirection
    IN IF nextValue >= r.totalFrames - 1 /\ r.playDirection > 0
       THEN IF ~r.loop \/ r.totalFrames <= 0
            THEN [r EXCEPT !.currentFrame = r.totalFrames - 1, !.isPaused = TRUE]
            ELSE IF nextValue >= r.totalFrames
            THEN [r EXCEPT !.currentFrame = nextValue % r.totalFrames]
            ELSE [r EXCEPT !.currentFrame = nextValue]
       ELSE IF nextValue < 0
       THEN IF ~r.loop \/ r.totalFrames <= 0
            THEN [r EXCEPT !.currentFrame = 0, !.isPaused = TRUE]
            ELSE [r EXCEPT !.currentFrame = r.totalFrames - ((-nextValue) % r.totalFrames)]
       ELSE [r EXCEPT !.currentFrame = nextValue]

\* Whether this step of the clock ends the run or wraps a loop: the renderer
\* then reports 'complete' or 'loopComplete'.
lottie_endsCycle(r) ==
    LET nextValue == r.currentFrame + r.playSpeed * r.playDirection
    IN IF nextValue >= r.totalFrames - 1 /\ r.playDirection > 0
       THEN ~r.loop \/ r.totalFrames <= 0 \/ nextValue >= r.totalFrames
       ELSE nextValue < 0

-----------------------------------------------------------------------------
(* Customizable properties of a document (lottie.ts, parsers.ts) *)

\* The catalog of a document: one LottieProperty per customization control,
\* with the value the document holds at the control's path.
extractLottieProperties(doc) ==
    [ i \in 1..Len(doc.controls) |->
        [ name |-> doc.controls[i].name,
          type |-> doc.controls[i].type,
          path |-> doc.controls[i].path,
          value |-> doc.vals[doc.controls[i].path] ] ]

\* One colour component: two hexadecimal digits read as a number (parseInt
\* takes either case), and a number written as two digits (lower case).
parseByte(digits) ==
    IF digits \in { "ff", "FF" } THEN 255 ELSE IF digits = "80" THEN 128 ELSE 0

formatByte(n) == IF n = 255 THEN "ff" ELSE IF n = 128 THEN "80" ELSE "00"

\* A hex string <<"#", rr, gg, bb>> as the tuple the document holds.
hexToTupleColor(hex) == << parseByte(hex[2]), parseByte(hex[3]), parseByte(hex[4]) >>

\* The tuple of the document as a hex string.
tupleColorToHex(value) ==
    << "#", formatByte(value[1]), formatByte(value[2]), formatByte(value[3]) >>

\* Writes 'value' at the path of every property of the list: a colour as
\* its tuple, any other value as it is.
updateLottieProperties(vals, props, value) ==
    [ path \in DOMAIN vals |->
        IF \E i \in 1..Len(props) : props[i].path = path
        THEN IF (CHOOSE c \in { props[i] : i \in 1..Len(props) } : c.path = path).type
                  = "color"
             THEN hexToTupleColor(value)
             ELSE value
        ELSE vals[path] ]

\* Writes back the value captured at extraction at the path of every property.
resetLottieProperties(vals, props) ==
    [ path \in DOMAIN vals |->
        IF \E i \in 1..Len(props) : props[i].path = path
        THEN (CHOOSE c \in { props[i] : i \in 1..Len(props) } : c.path = path).value
        ELSE vals[path] ]

\* parseStroke: 1, 2, 3 and the presets light, regular, bold; 0 for undefined.
parseStroke(stroke) ==
    IF stroke \in { <<"1">>, <<"light">> } THEN 1
    ELSE IF stroke \in { <<"2">>, <<"regular">> } THEN 2
    ELSE IF stroke \in { <<"3">>, <<"bold">> } THEN 3
    ELSE 0

isColor(c) == c.type = "color"

isStroke(c) == c.name = <<"stroke">> \/ c.name = <<"stroke-layers">>

\* The filter of the legacy catalog without the name 'stroke'.
isLegacyControl_noStroke(c) ==
    \/ c.name \in { <<"scale">>, <<"axis">> }
    \/ (c.name # <<>> /\ c.name[1] = "state-")

isLegacyControl(c) ==
    \/ c.name \in { <<"scale">>, <<"axis">>, <<"stroke">> }
    \/ (c.name # <<>> /\ c.name[1] = "state-")

isLiveProperty(c) == ~isLegacyControl(c)

-----------------------------------------------------------------------------
(* The Player: its fields as one record, its methods as functions on it *)

This ==
    [ data |-> data,
      _iconData |-> _iconData,
      _initialProperties |-> _initialProperties,
      _availableStates |-> _availableStates,
      _state |-> _state,
      _lottieInstance |-> _lottieInstance,
      _ready |-> _ready,
      _direction |-> _direction,
      _speed |-> _speed,
      _lottieProperties |-> _lottieProperties,
      _colorsProxy |-> _colorsProxy,
      _eventHandlers |-> _eventHandlers,
      lottie |-> lottie,
      calls |-> <<>>,
      invoked |-> <<>>,
      err |-> NoError ]

\* The fields after a method has returned or thrown.
Becomes(p, op) ==
    /\ data' = p.data
    /\ _iconData' = p._iconData
    /\ _initialProperties' = p._initialProperties
    /\ _availableStates' = p._availableStates
    /\ _state' = p._state
    /\ _lottieInstance' = p._lottieInstance
    /\ _ready' = p._ready
    /\ _direction' = p._direction
    /\ _speed' = p._speed
    /\ _lottieProperties' = p._lottieProperties
    /\ _colorsProxy' = p._colorsProxy
    /\ _eventHandlers' = p._eventHandlers
    /\ lottie' = p.lottie
    /\ calls' = p.calls
    /\ invoked' = p.invoked
    /\ err' = p.err
    /\ last' = op

Throw(p, e) == [p EXCEPT !.err = e]

Instance(p) == p.lottie[p._lottieInstance]

\* A call on the renderer instance that leaves it as r.
Call(p, f, args, r) ==
    [p EXCEPT !.lottie[p._lottieInstance] = r,
              !.calls = Append(@, [f |-> f, args |-> args])]

\* A write that leaves the object doc.ref reading doc: it is seen through
\* every reference to that object, the caller's and the Player's.
written(p, doc) ==
    [p EXCEPT !.data = IF @.ref = doc.ref THEN doc ELSE @,
              !._iconData = IF @.ref = doc.ref THEN doc ELSE @]

\* The getter that extracts on every access.
lottieProperties_noMemo(p) ==
    LET extracted == extractLottieProperties(p._iconData)
    IN [p EXCEPT !._lottieProperties =
           << IF p._availableStates = <<>>
              THEN Filter(extracted, isLiveProperty)
              ELSE extracted >>,
                 !.calls = Append(@, [f |-> "extractLottieProperties", args |-> <<>>])]

\* get lottieProperties(): extracts and memoizes on first access.  The
\* extraction is noted among the calls of the operation.
lottieProperties(p) ==
    IF p._lottieProperties # <<>> THEN p
    ELSE LET extracted == extractLottieProperties(p._iconData)
         IN [p EXCEPT !._lottieProperties =
                << IF p._availableStates = <<>>
                   THEN Filter(extracted, isLiveProperty)
                   ELSE extracted >>,
                      !.calls = Append(@, [f |-> "extractLottieProperties",
                                           args |-> <<>>])]

EventNames == { "ready", "complete", "frame", "refresh" }

\* The handler that removes itself when it is invoked, through the function
\* addEventListener returned for it.
Once == "once"

\* The handler that reads the customization values and the state when it is
\* invoked.
Reader == "reader"

\* What such a handler reads: the values the renderer instance holds at the
\* paths of the controls, and the active state.
read(p) ==
    [ vals |-> IF p._lottieInstance = 0 THEN <<>> ELSE Instance(p).animationData.vals,
      state |-> p._state ]

\* The while loop of removeEventListener from index i on: every occurrence
\* of the handler is spliced out.
RECURSIVE spliceHandler(_, _, _)
spliceHandler(handlers, handler, i) ==
    IF i > Len(handlers) THEN handlers
    ELSE IF handlers[i] = handler
    THEN spliceHandler(SubSeq(handlers, 1, i - 1) \o SubSeq(handlers, i + 1, Len(handlers)),
                       handler, i)
    ELSE spliceHandler(handlers, handler, i + 1)

\* removeEventListener(name, handler?); handler: <<>> (not given) or <<h>>.
\* null and a missing entry are both the empty list of handlers.
Player_removeEventListener(p, name, handler) ==
    IF handler = <<>> THEN [p EXCEPT !._eventHandlers[name] = <<>>]
    ELSE [p EXCEPT !._eventHandlers[name] = spliceHandler(@, handler[1], 1)]

\* addEventListener(name, handler)
Player_addEventListener(p, name, handler) ==
    [p EXCEPT !._eventHandlers[name] = Append(@, handler)]

\* The for loop of triggerEvent from index i on.  The loop reads the length
\* of the array on every round, and removeEventListener splices that array.
RECURSIVE dispatch(_, _, _)
dispatch(p, name, i) ==
    IF i > Len(p._eventHandlers[name]) THEN p
    ELSE LET handler == p._eventHandlers[name][i]
             q == [p EXCEPT !.invoked =
                      Append(@, IF handler = Reader THEN << name, handler, read(p) >>
                                ELSE << name, handler >>)]
             r == IF handler = Once
                  THEN Player_removeEventListener(q, name, << handler >>)
                  ELSE q
         IN dispatch(r, name, i + 1)

\* triggerEvent(name)
triggerEvent(p, name) == dispatch(p, name, 1)

\* refresh() that triggers the event twice.
refresh_twice(p) ==
    IF p._lottieInstance = 0 THEN Throw(p, ErrNotInitialized)
    ELSE triggerEvent(triggerEvent(Call(p, "renderFrame", <<>>, Instance(p)), "refresh"),
                      "refresh")

refresh(p) ==
    IF p._lottieInstance = 0 THEN Throw(p, ErrNotInitialized)
    ELSE triggerEvent(Call(p, "renderFrame", <<>>, Instance(p)), "refresh")

Player_play(p) ==
    IF p._lottieInstance = 0 THEN Throw(p, ErrNotInitialized)
    ELSE LET q == Call(p, "setDirection", <<p._direction>>,
                       lottie_setDirection(Instance(p), p._direction))
         IN Call(q, "play", <<>>, lottie_play(Instance(q)))

\* playFromStart() that plays in the configured direction.
Player_playFromStart_configured(p) ==
    IF p._lottieInstance = 0 THEN Throw(p, ErrNotInitialized)
    ELSE LET q == Call(p, "setDirection", <<p._direction>>,
                       lottie_setDirection(Instance(p), p._direction))
         IN IF q._state # <<>>
            THEN Call(q, "playSegments", stateSegment(q._state[1]),
                      lottie_playSegments(Instance(q), stateSegment(q._state[1])))
            ELSE Call(q, "goToAndPlay", <<0>>, lottie_goToAndPlay(Instance(q), 0))

Player_playFromStart(p) ==
    IF p._lottieInstance = 0 THEN Throw(p, ErrNotInitialized)
    ELSE LET q == Call(p, "setDirection", <<1>>, lottie_setDirection(Instance(p), 1))
         IN IF q._state # <<>>
            THEN Call(q, "playSegments", stateSegment(q._state[1]),
                      lottie_playSegments(Instance(q), stateSegment(q._state[1])))
            ELSE Call(q, "goToAndPlay", <<0>>, lottie_goToAndPlay(Instance(q), 0))

Player_pause_silent(p) ==
    IF p._lottieInstance = 0 THEN p
    ELSE Call(p, "pause", <<>>, lottie_pause(Instance(p)))

Player_pause(p) ==
    IF p._lottieInstance = 0 THEN Throw(p, ErrNotInitialized)
    ELSE Call(p, "pause", <<>>, lottie_pause(Instance(p)))

Player_stop(p) ==
    IF p._lottieInstance = 0 THEN Throw(p, ErrNotInitialized)
    ELSE Call(p, "stop", <<>>, lottie_stop(Instance(p)))

Player_seek(p, frame) ==
    IF p._lottieInstance = 0 THEN Throw(p, ErrNotInitialized)
    ELSE Call(p, "goToAndStop", <<frame>>, lottie_goToAndStop(Instance(p), frame))

Max(a, b) == IF a > b THEN a ELSE b

Min(a, b) == IF a < b THEN a ELSE b

\* get frameCount(): getDuration(true) - 1
frameCount(p) == lottie_getDuration(Instance(p)) - 1

Player_seekToStart(p) == Player_seek(p, 0)

\* seekToEnd() without the lower bound of 0.
Player_seekToEnd_noClamp(p) ==
    IF p._lottieInstance = 0 THEN Throw(p, ErrNotInitialized)
    ELSE Player_seek(p, frameCount(p))

Player_seekToEnd(p) ==
    IF p._lottieInstance = 0 THEN Throw(p, ErrNotInitialized)
    ELSE Player_seek(p, Max(0, frameCount(p)))

\* segment: <<>> (undefined) or <<[start, end]>>
Player_switchSegment(p, segment) ==
    IF p._lottieInstance = 0 THEN Throw(p, ErrNotInitialized)
    ELSE LET q == IF segment # <<>>
                  THEN Call(p, "setSegment", segment[1],
                            lottie_setSegment(Instance(p), segment[1][1], segment[1][2]))
                  ELSE Call(p, "resetSegments", <<>>, lottie_resetSegments(Instance(p)))
         IN Call(q, "goToAndStop", <<0>>, lottie_goToAndStop(Instance(q), 0))

\* The state the setter resolves a requested name to.
resolveState(states, state) ==
    IF isNil(state) THEN defaultState(states)
    ELSE IF Truthy(state)
    THEN IF stateByName(states, state) # <<>>
         THEN stateByName(states, state)
         ELSE defaultState(states)
    ELSE <<>>

\* The new state resolved and its segment handed to the renderer.
switchState(p, state) ==
    LET q == [p EXCEPT !._state = resolveState(p._availableStates, state)]
    IN Player_switchSegment(q,
           IF q._state # <<>> THEN <<stateSegment(q._state[1])>> ELSE <<>>)

\* The setter without the restart of the playback.
Player_set_state_noRestart(p, state) ==
    IF p._lottieInstance = 0 THEN Throw(p, ErrNotInitialized)
    ELSE IF state = stateGetter(p._state) THEN p
    ELSE switchState(p, state)

\* The setter without the early return on the active state's name.
Player_set_state_noShortcut(p, state) ==
    IF p._lottieInstance = 0 THEN Throw(p, ErrNotInitialized)
    ELSE LET isPlaying == ~Instance(p).isPaused
             r == switchState(p, state)
         IN IF isPlaying THEN Player_play(Player_pause(r)) ELSE r

Player_set_state(p, state) ==
    IF p._lottieInstance = 0 THEN Throw(p, ErrNotInitialized)
    ELSE IF state = stateGetter(p._state) THEN p
    ELSE LET isPlaying == ~Instance(p).isPaused
             r == switchState(p, state)
         IN IF isPlaying THEN Player_play(Player_pause(r)) ELSE r

\* A write through the instance: on a Player without an instance, writing a
\* non-empty property list dereferences undefined.
applyUpdate(p, props, value) ==
    IF p.err # NoError \/ props = <<>> THEN p
    ELSE IF p._lottieInstance = 0 THEN Throw(p, ErrTypeError)
    ELSE LET q == [p EXCEPT !.lottie[p._lottieInstance].animationData.vals =
                                updateLottieProperties(@, props, value)]
         IN written(q, Instance(q).animationData)

applyReset(p, props) ==
    IF p.err # NoError \/ props = <<>> THEN p
    ELSE IF p._lottieInstance = 0 THEN Throw(p, ErrTypeError)
    ELSE LET q == [p EXCEPT !.lottie[p._lottieInstance].animationData.vals =
                                resetLottieProperties(@, props)]
         IN written(q, Instance(q).animationData)

\* for (const [key, value] of Object.entries(colors)) updateLottieProperties(...)
RECURSIVE applyColors(_, _)
applyColors(p, entries) ==
    IF entries = <<>> THEN p
    ELSE LET named(c) == isColor(c) /\ c.name = Head(entries)[1]
         IN applyColors(
                applyUpdate(p, Filter(p._lottieProperties[1], named), Head(entries)[2]),
                Tail(entries))

\* The setter as a merge: the colours are not reset first.
Player_set_colors_merge(p, colors) ==
    LET q == lottieProperties(p)
        s == IF colors # <<>> THEN applyColors(q, colors[1]) ELSE q
    IN IF s.err # NoError THEN s ELSE refresh(s)

\* colors: <<>> (null) or <<entries>>, entries a sequence of <<name, value>>
Player_set_colors(p, colors) ==
    LET q == lottieProperties(p)
        r == applyReset(q, Filter(q._lottieProperties[1], isColor))
        s == IF colors # <<>> THEN applyColors(r, colors[1]) ELSE r
    IN IF s.err # NoError THEN s ELSE refresh(s)

Player_set_stroke(p, stroke) ==
    LET q == lottieProperties(p)
        r == applyReset(q, Filter(q._lottieProperties[1], isStroke))
        newStroke == parseStroke(stroke)
        s == IF newStroke # 0
             THEN applyUpdate(r, Filter(r._lottieProperties[1], isStroke), newStroke)
             ELSE r
    IN IF s.err # NoError THEN s ELSE refresh(s)

\* get stroke(): the stroke read from the first stroke property; 0 for null.
Player_get_stroke(p) ==
    LET strokes == Filter(lottieProperties(p)._lottieProperties[1], isStroke)
    IN IF strokes = <<>> \/ p._lottieInstance = 0 THEN 0
       ELSE LET value == Instance(p).animationData.vals[strokes[1].path]
            IN IF value \in { 1, 2, 3 } THEN value ELSE 0

\* colors[property] read through the proxy: the hex string of the first
\* colour property of that name, or undefined.
Player_get_color(p, property) ==
    LET named(c) == isColor(c) /\ c.name = property
        found == Filter(lottieProperties(p)._lottieProperties[1], named)
    IN IF found = <<>> \/ p._lottieInstance = 0 THEN Undefined
       ELSE tupleColorToHex(Instance(p).animationData.vals[found[1].path])

\* colors[property] = value through the proxy the colors getter creates.
Player_colors_set(p, property, value) ==
    LET named(c) == isColor(c) /\ c.name = property
        q == lottieProperties([p EXCEPT !._colorsProxy = TRUE])
        r == IF Truthy(value)
             THEN applyUpdate(q, Filter(q._lottieProperties[1], named), value)
             ELSE applyReset(q, Filter(q._lottieProperties[1], named))
    IN IF r.err # NoError THEN r ELSE refresh(r)

\* A delete that resets every colour, whatever its name.
Player_colors_delete_all(p, property) ==
    LET q == lottieProperties([p EXCEPT !._colorsProxy = TRUE])
        r == applyReset(q, Filter(q._lottieProperties[1], isColor))
    IN IF r.err # NoError THEN r ELSE refresh(r)

\* delete colors[property] through the proxy.
Player_colors_delete(p, property) ==
    LET named(c) == isColor(c) /\ c.name = property
        q == lottieProperties([p EXCEPT !._colorsProxy = TRUE])
        r == applyReset(q, Filter(q._lottieProperties[1], named))
    IN IF r.err # NoError THEN r ELSE refresh(r)

\* The bulk setter leaving alone the categories it is not given.
Player_set_properties_merge(p, props) ==
    LET q == IF props.colors # <<>> THEN Player_set_colors(p, props.colors) ELSE p
        r == IF q.err # NoError \/ ~Truthy(props.stroke) THEN q
             ELSE Player_set_stroke(q, props.stroke)
    IN IF r.err # NoError \/ ~Truthy(props.state) THEN r
       ELSE Player_set_state(r, props.state)

\* properties: [colors, stroke, state]; an absent member reads as null.
Player_set_properties(p, props) ==
    LET q == Player_set_colors(p, props.colors)
        r == IF q.err # NoError THEN q
             ELSE Player_set_stroke(q, IF Truthy(props.stroke) THEN props.stroke ELSE Null)
    IN IF r.err # NoError THEN r
       ELSE Player_set_state(r, IF Truthy(props.state) THEN props.state ELSE Null)

Player_set_speed(p, speed) ==
    LET q == [p EXCEPT !._speed = speed]
    IN IF q._lottieInstance = 0 THEN q
       ELSE Call(q, "setSpeed", <<speed>>, lottie_setSpeed(Instance(q), speed))

Player_set_direction(p, direction) ==
    IF p._lottieInstance = 0 THEN Throw(p, ErrNotInitialized)
    ELSE Call([p EXCEPT !._direction = direction], "setDirection", <<direction>>,
              lottie_setDirection(Instance(p), direction))

Player_set_loop(p, loop) ==
    IF p._lottieInstance = 0 THEN Throw(p, ErrNotInitialized)
    ELSE [p EXCEPT !.lottie[p._lottieInstance].loop = loop]

Player_set_frame(p, frame) ==
    IF p._lottieInstance = 0 THEN Throw(p, ErrNotInitialized)
    ELSE Player_seek(p, Max(0, Min(frameCount(p), frame)))

\* The time range taken from the selected state instead of the catalog's ends.
fixedParams_selected(p) ==
    IF p._availableStates # <<>> /\ p._state # <<>>
    THEN [ ip |-> p._state[1].time, op |-> p._state[1].time + p._state[1].duration + 1 ]
    ELSE [ ip |-> p._iconData.ip, op |-> p._iconData.op ]

\* The time range init() patches into the document it loads.
fixedParams(p) ==
    IF p._availableStates # <<>>
    THEN LET firstState == p._availableStates[1]
             lastState == p._availableStates[Len(p._availableStates)]
         IN [ ip |-> firstState.time, op |-> lastState.time + lastState.duration + 1 ]
    ELSE [ ip |-> p._iconData.ip, op |-> p._iconData.op ]

\* init() past its guard: loads the renderer, applies the initial colors and
\* stroke, and marks the Player ready or waits for config_ready.
connect(p, loaded) ==
         LET initialSegment ==
                 IF p._state # <<>> THEN <<stateSegment(p._state[1])>> ELSE <<>>
             animationData ==
                 [deepClone(p._iconData) EXCEPT !.ip = fixedParams(p).ip,
                                                !.op = fixedParams(p).op]
             q == [written(p, animationData) EXCEPT
                     !.lottie = Append(@, loadAnimation(initialSegment, animationData, loaded)),
                     !._lottieInstance = Len(p.lottie) + 1,
                     !.calls = Append(@, [f |-> "loadAnimation",
                                          args |-> IF initialSegment # <<>>
                                                   THEN initialSegment[1] ELSE <<>>])]
             r == IF q._initialProperties.colors # <<>>
                  THEN Player_set_colors(q, q._initialProperties.colors)
                  ELSE q
             s == IF r.err = NoError /\ Truthy(r._initialProperties.stroke)
                  THEN Player_set_stroke(r, r._initialProperties.stroke)
                  ELSE r
         IN IF s.err # NoError THEN s
            ELSE IF Instance(s).isLoaded
            THEN triggerEvent([s EXCEPT !._ready = TRUE], "ready")
            ELSE [s EXCEPT !.lottie[s._lottieInstance].configReady = TRUE]

\* init() without the guard against a second initialization.
Player_init_unguarded(p, loaded) == connect(p, loaded)

\* init(); 'loaded' is whether the renderer reports isLoaded when it returns.
Player_init(p, loaded) ==
    IF p._lottieInstance # 0 THEN Throw(p, ErrAlreadyConnected)
    ELSE connect(p, loaded)

\* destroy() that forgets to clear this._lottieInstance.
Player_destroy_keepsInstance(p) ==
    IF p._lottieInstance = 0 THEN Throw(p, ErrNotConnected)
    ELSE LET q == Call([p EXCEPT !._ready = FALSE], "destroy", <<>>,
                       lottie_destroy(Instance(p)))
         IN [q EXCEPT !._colorsProxy = FALSE, !._lottieProperties = <<>>]

Player_destroy(p) ==
    IF p._lottieInstance = 0 THEN Throw(p, ErrNotConnected)
    ELSE LET q == Call([p EXCEPT !._ready = FALSE], "destroy", <<>>,
                       lottie_destroy(Instance(p)))
         IN [q EXCEPT !._lottieInstance = 0,
                      !._colorsProxy = FALSE,
                      !._lottieProperties = <<>>]

-----------------------------------------------------------------------------
(* The constructor *)

\* The name used as it was given.
toLowerCase_asIs(str) == str

\* 'state-' + state.toLowerCase()
toLowerCase(str) == [ i \in DOMAIN str |-> IF str[i] = "HOVER" THEN "hover" ELSE str[i] ]

\* A supplied stroke as a number; -1 stands for NaN.
toNumber(value) ==
    IF value = <<"1">> THEN 1 ELSE IF value = <<"2">> THEN 2
    ELSE IF value = <<"3">> THEN 3 ELSE IF value = <<"7">> THEN 7
    ELSE IF value = <<"50">> THEN 50 ELSE -1

\* number * ratio, with NaN for a number that is NaN.
times(number, ratio) == IF number = -1 THEN -1 ELSE number * ratio

\* The ratio of a slider: property.value / 50.  The sample documents hold
\* multiples of 50, for which the quotient is a whole number.
sliderRatio(value) == value \div 50

\* The ratio taken from the first component of the point alone.
axisRatio_first(value) == value[1] \div 50

\* The ratio of the axis: ((property.value[0] + property.value[1]) / 2) / 50
axisRatio(value) == ((value[1] + value[2]) \div 2) \div 50

\* The legacy branch past the clone: the initial state, stroke, scale and
\* axis written into the document the Player holds.
legacyIconData(doc, initial) ==
    LET props == extractLottieProperties(doc)
        isToggle(c) == c.name # <<>> /\ c.name[1] = "state-"
        isRequested(c) == c.name = <<"state-">> \o toLowerCase(initial.state)
        named(n) == LET is(c) == c.name = n IN First(Filter(props, is))
        v1 == IF Truthy(initial.state)
              THEN updateLottieProperties(
                       updateLottieProperties(doc.vals, Filter(props, isToggle), 0),
                       Filter(props, isRequested), 1)
              ELSE doc.vals
        v2 == IF Truthy(initial.stroke) /\ named(<<"stroke">>) # <<>>
              THEN [v1 EXCEPT ![named(<<"stroke">>)[1].path] =
                       times(toNumber(initial.stroke),
                             sliderRatio(named(<<"stroke">>)[1].value))]
              ELSE v1
        v3 == IF initial.scale # 0 /\ named(<<"scale">>) # <<>>
              THEN [v2 EXCEPT ![named(<<"scale">>)[1].path] =
                       initial.scale * sliderRatio(named(<<"scale">>)[1].value)]
              ELSE v2
        v4 == IF initial.axisX # 0 /\ initial.axisY # 0 /\ named(<<"axis">>) # <<>>
              THEN [v3 EXCEPT ![named(<<"axis">>)[1].path] =
                       << initial.axisX * axisRatio(named(<<"axis">>)[1].value),
                          initial.axisY * axisRatio(named(<<"axis">>)[1].value) >>]
              ELSE v3
    IN [doc EXCEPT !.vals = v4]

SupportedStrokes ==
    { <<"1">>, <<"2">>, <<"3">>, <<"light">>, <<"regular">>, <<"bold">> }

\* The Player the constructor leaves when it does not initialize.
constructed(doc, props) ==
    LET states == parseAvailableStates(doc.markers)
        initial == IF states # <<>> /\ Truthy(props.stroke)
                      /\ props.stroke \notin SupportedStrokes
                   THEN [props EXCEPT !.stroke = Undefined]
                   ELSE props
        iconData == IF states = <<>> THEN legacyIconData(deepClone(doc), initial)
                    ELSE doc
    IN written([ This EXCEPT
                   !._initialProperties = initial,
                   !._availableStates = states,
                   !._state = constructorState(doc.markers, props.state),
                   !._iconData = iconData ],
               iconData)

-----------------------------------------------------------------------------
(* Inputs *)

\* Sample markers: a default state, a state with a parameter, and a flagged
\* marker the constructor discards (duration <= 0).
Markers ==
    { [ cm |-> <<"default", ":", "a">>, tm |-> 0, dr |-> 2 ],
      [ cm |-> <<"b", ":", "x">>, tm |-> 3, dr |-> 1 ],
      [ cm |-> <<"default", ":", "c">>, tm |-> 5, dr |-> 0 ] }

SeqsUpTo(S, n) == UNION { [1..k -> S] : k \in 0..n }

Document(markers) ==
    [ ref |-> 0, markers |-> markers, ip |-> 0, op |-> 4, controls |-> <<>>,
      vals |-> <<>> ]

Documents == { Document(m) : m \in SeqsUpTo(Markers, MaxMarkers) }

InitialProperties ==
    [ state : { Undefined, <<"b">>, <<"c">>, <<"zz">> },
      colors : { <<>> },
      stroke : { Undefined },
      scale : { 0 }, axisX : { 0 }, axisY : { 0 } ]

StateArgs == { Null, EmptyString, <<"a">>, <<"b">>, <<"zz">> }

SeekFrames == { 1 }

FrameArgs == { -1, 1, 7 }

Segments == { <<>>, << <<1, 3>> >> }

Speeds == { 2 }

\* Looping playback is left unexplored: the loop setter assigns false.
LoopArgs == { FALSE }

Directions == { 1, -1 }

Red == << "#", "ff", "00", "00" >>

RedUpper == << "#", "FF", "00", "00" >>

Gray == << "#", "80", "80", "80" >>

ColorArgs == { <<>>, << << << <<"primary">>, Red >> >> >> }

StrokeArgs == { Null, <<"2">>, <<"7">> }

PropertiesArgs ==
    { [ colors |-> <<>>, stroke |-> Undefined, state |-> Undefined ],
      [ colors |-> <<>>, stroke |-> <<"2">>, state |-> <<"b">> ] }

\* A document with states and customization controls: a colour used in two
\* layers, a second colour and a stroke.
ModernDocument ==
    [ ref |-> 0,
      markers |-> << [ cm |-> <<"default", ":", "a">>, tm |-> 0, dr |-> 2 ],
                     [ cm |-> <<"b", ":", "x">>, tm |-> 3, dr |-> 1 ] >>,
      ip |-> 0, op |-> 4,
      controls |-> << [ name |-> <<"primary">>, type |-> "color", path |-> 1 ],
                      [ name |-> <<"primary">>, type |-> "color", path |-> 2 ],
                      [ name |-> <<"secondary">>, type |-> "color", path |-> 3 ],
                      [ name |-> <<"stroke">>, type |-> "slider", path |-> 4 ] >>,
      vals |-> << <<0, 0, 0>>, <<128, 128, 128>>, <<0, 128, 0>>, 1 >> ]

\* A document without markers, with the controls of the legacy files.
LegacyDocument ==
    [ ref |-> 0,
      markers |-> <<>>,
      ip |-> 0, op |-> 4,
      controls |-> << [ name |-> <<"primary">>, type |-> "color", path |-> 1 ],
                      [ name |-> <<"stroke">>, type |-> "slider", path |-> 2 ],
                      [ name |-> <<"scale">>, type |-> "slider", path |-> 3 ],
                      [ name |-> <<"axis">>, type |-> "point", path |-> 4 ],
                      [ name |-> <<"state-", "hover">>, type |-> "checkbox", path |-> 5 ],
                      [ name |-> <<"state-", "morph">>, type |-> "checkbox", path |-> 6 ] >>,
      vals |-> << <<0, 0, 0>>, 100, 50, <<50, 50>>, 0, 1 >> ]

ColorNames == { <<"primary">>, <<"secondary">> }

ColorValues == { Gray, RedUpper }

ColorMaps ==
    { <<>>,
      << << << <<"primary">>, Red >> >> >>,
      << << << <<"secondary">>, RedUpper >>, << <<"primary">>, Gray >> >> >> }

BulkProperties ==
    { [ colors |-> <<>>, stroke |-> <<"2">>, state |-> Undefined ],
      [ colors |-> << << << <<"secondary">>, Red >> >> >>, stroke |-> Undefined,
        state |-> <<"b">> ] }

\* Alphabet of the marker names of SpecParse.
Alphabet == { "default", "hover-spending", "fast", "bogus", "foo", Colon }

-----------------------------------------------------------------------------
(* Actions *)

Op(name, arg) == [ op |-> name, arg |-> arg ]

\* No call is being looked at.
Idle == Op("none", <<>>)

FieldsInit ==
    /\ _iconData = <<>>
    /\ _initialProperties = <<>>
    /\ _availableStates = <<>>
    /\ _state = <<>>
    /\ _lottieInstance = 0
    /\ _ready = FALSE
    /\ _direction = 1
    /\ _speed = 1
    /\ _lottieProperties = <<>>
    /\ _colorsProxy = FALSE
    /\ _eventHandlers = [ name \in EventNames |-> <<>> ]
    /\ lottie = <<>>
    /\ calls = <<>>
    /\ invoked = <<>>
    /\ err = NoError
    /\ last = Idle

Init ==
    /\ pc = "new"
    /\ data \in Documents
    /\ properties \in InitialProperties
    /\ FieldsInit

\* new Player(container, data, properties, {autoInit})
Construct(autoInit, loaded) ==
    /\ pc = "new"
    /\ UNCHANGED properties
    /\ IF constructorThrows(data.markers)
       THEN /\ pc' = "failed"
            /\ Becomes(Throw(This, ErrUnsupportedFlag), Op("constructor", <<>>))
       ELSE /\ pc' = "constructed"
            /\ autoInit => Len(lottie) < MaxInits
            /\ Becomes(IF autoInit
                       THEN Player_init(constructed(data, properties), loaded)
                       ELSE constructed(data, properties),
                       Op("constructor", <<>>))

\* A method call on the constructed Player, made once the caller has taken
\* note of the outcome of the call before.
Method(p, op) ==
    /\ pc = "constructed"
    /\ last = Idle
    /\ UNCHANGED << pc, properties >>
    /\ Becomes(p, op)

init(loaded) ==
    /\ pc = "constructed"
    /\ Len(Player_init(This, loaded).lottie) <= MaxInits
    /\ Method(Player_init(This, loaded), Op("init", <<>>))

destroy == Method(Player_destroy(This), Op("destroy", <<>>))

\* destroy() while the renderer is still loading, on a renderer that does not
\* cancel the report it owes.
destroy_pending ==
    /\ _lottieInstance # 0
    /\ lottie[_lottieInstance].configReady
    /\ Method([Player_destroy(This) EXCEPT
                  !.lottie[_lottieInstance] = lottie_destroy_pending(lottie[_lottieInstance])],
              Op("destroy", <<>>))

play == Method(Player_play(This), Op("play", <<>>))

playFromStart == Method(Player_playFromStart(This), Op("playFromStart", <<>>))

pause == Method(Player_pause(This), Op("pause", <<>>))

stop == Method(Player_stop(This), Op("stop", <<>>))

seek(frame) == Method(Player_seek(This, frame), Op("seek", <<frame>>))

seekToStart == Method(Player_seekToStart(This), Op("seekToStart", <<>>))

\* The caller notes whether the Player was playing when it asked.
seekToEnd ==
    Method(Player_seekToEnd(This),
           Op("seekToEnd", << _lottieInstance # 0 /\ ~lottie[_lottieInstance].isPaused >>))

switchSegment(segment) ==
    Method(Player_switchSegment(This, segment), Op("switchSegment", segment))

\* What the caller reads for each colour name.
colorsRead(p) ==
    << Player_get_color(p, <<"primary">>), Player_get_color(p, <<"secondary">>) >>

\* The bulk and the colour assignments note what the colours read before.
set_properties(props) ==
    Method(Player_set_properties(This, props),
           Op("set properties", << props, colorsRead(This) >>))

set_colors(colors) ==
    Method(Player_set_colors(This, colors), Op("set colors", << colors, colorsRead(This) >>))

colors_set(property, value) ==
    Method(Player_colors_set(This, property, value), Op("colors set", << property, value >>))

\* The caller notes what the colour read before deleting it.
colors_delete(property) ==
    Method(Player_colors_delete(This, property),
           Op("colors delete", << property, Player_get_color(This, property) >>))

set_stroke(stroke) == Method(Player_set_stroke(This, stroke), Op("set stroke", stroke))

set_state(state) == Method(Player_set_state(This, state), Op("set state", state))

set_speed(speed) == Method(Player_set_speed(This, speed), Op("set speed", <<speed>>))

set_direction(direction) ==
    Method(Player_set_direction(This, direction), Op("set direction", <<direction>>))

set_loop(loop) == Method(Player_set_loop(This, loop), Op("set loop", <<loop>>))

set_frame(frame) == Method(Player_set_frame(This, frame), Op("set frame", <<frame>>))

addEventListener(name, handler) ==
    Method(Player_addEventListener(This, name, handler),
           Op("addEventListener", << name, handler >>))

\* handler: <<>> (not given) or <<h>>
removeEventListener(name, handler) ==
    Method(Player_removeEventListener(This, name, handler),
           Op("removeEventListener", << name, handler >>))

\* The function addEventListener(name, handler) returned is called; it is at
\* hand for every handler that is registered.
unsubscribe(name, handler) ==
    /\ pc = "constructed"
    /\ \E i \in 1..Len(_eventHandlers[name]) : _eventHandlers[name][i] = handler
    /\ Method(Player_removeEventListener(This, name, << handler >>),
              Op("unsubscribe", << name, << handler >> >>))

\* The caller moves on from the outcome of the last call.
Return ==
    /\ pc = "constructed"
    /\ last # Idle
    /\ last' = Idle
    /\ calls' = <<>>
    /\ invoked' = <<>>
    /\ err' = NoError
    /\ UNCHANGED << pc, data, properties, _iconData, _initialProperties,
                    _availableStates, _state, _lottieInstance, _ready, _direction,
                    _speed, _lottieProperties, _colorsProxy, _eventHandlers, lottie >>

\* The renderer reports config_ready to the listener init() registered.
config_ready ==
    \E i \in 1..Len(lottie) :
        /\ lottie[i].configReady
        /\ Method(triggerEvent([This EXCEPT !.lottie[i].isLoaded = TRUE,
                                            !.lottie[i].configReady = FALSE,
                                            !._ready = TRUE],
                               "ready"),
                  Op("config_ready", <<i>>))

\* The renderer's clock advances the playing instance by one step.
enterFrame ==
    /\ _lottieInstance # 0
    /\ ~lottie[_lottieInstance].isPaused /\ lottie[_lottieInstance].isLoaded
    /\ LET p == triggerEvent(
                     [This EXCEPT !.lottie[_lottieInstance] = lottie_advanceTime(@)],
                     "frame")
       IN Method(IF lottie_endsCycle(lottie[_lottieInstance])
                 THEN triggerEvent(p, "complete")
                 ELSE p,
                 Op("enterFrame", <<>>))

Next ==
    \/ \E autoInit \in BOOLEAN, loaded \in BOOLEAN : Construct(autoInit, loaded)
    \/ \E loaded \in BOOLEAN : init(loaded)
    \/ destroy
    \/ play
    \/ playFromStart
    \/ pause
    \/ stop
    \/ \E frame \in SeekFrames : seek(frame)
    \/ seekToStart
    \/ seekToEnd
    \/ \E segment \in Segments : switchSegment(segment)
    \/ \E props \in PropertiesArgs : set_properties(props)
    \/ \E colors \in ColorArgs : set_colors(colors)
    \/ \E stroke \in StrokeArgs : set_stroke(stroke)
    \/ \E state \in StateArgs : set_state(state)
    \/ \E direction \in Directions : set_direction(direction)
    \/ \E loop \in LoopArgs : set_loop(loop)
    \/ \E frame \in FrameArgs : set_frame(frame)
    \/ config_ready
    \/ enterFrame
    \/ Return

Spec == Init /\ [][Next]_vars

\* Construction alone, on one-marker documents with every marker name of up
\* to MaxCmLen atoms.
InitParse ==
    /\ pc = "new"
    /\ \E cm \in SeqsUpTo(Alphabet, MaxCmLen) :
           data = Document(<< [ cm |-> cm, tm |-> 0, dr |-> 2 ] >>)
    /\ properties \in [ state : {Undefined, <<"hover-spending">>},
                         colors : { <<>> }, stroke : { Undefined },
                         scale : { 0 }, axisX : { 0 }, axisY : { 0 } ]
    /\ FieldsInit

NextParse == \E autoInit \in BOOLEAN, loaded \in BOOLEAN : Construct(autoInit, loaded)

SpecParse == InitParse /\ [][NextParse]_vars

\* The property setters, on a document with states and on a legacy document,
\* both with customization controls.
InitProps ==
    /\ pc = "new"
    /\ data \in { ModernDocument, LegacyDocument }
    /\ properties \in [ state : { Undefined, <<"HOVER">> },
                         colors : { <<>>, << << << <<"primary">>, Red >> >> >> },
                         stroke : { Undefined, <<"2">> },
                         scale : { 0 }, axisX : { 0 }, axisY : { 0 } ]
    /\ FieldsInit

NextProps ==
    \/ \E autoInit \in BOOLEAN, loaded \in BOOLEAN : Construct(autoInit, loaded)
    \/ \E loaded \in BOOLEAN : init(loaded)
    \/ destroy
    \/ \E props \in BulkProperties : set_properties(props)
    \/ \E colors \in ColorMaps : set_colors(colors)
    \/ \E stroke \in StrokeArgs : set_stroke(stroke)
    \/ \E property \in ColorNames, value \in ColorValues : colors_set(property, value)
    \/ \E property \in ColorNames : colors_delete(property)
    \/ config_ready
    \/ Return

SpecProps == InitProps /\ [][NextProps]_vars

\* The event names and handlers of SpecEvents: two plain handlers and one
\* that removes itself.
ListenedEvents == { "ready", "refresh" }

Handlers == { "h1", "h2", Once }

\* The number of registrations under all names.
registrations ==
    Len(_eventHandlers["ready"]) + Len(_eventHandlers["complete"])
      + Len(_eventHandlers["frame"]) + Len(_eventHandlers["refresh"])

\* Event handlers on a Player that is initialized, re-rendered and destroyed.
InitEvents ==
    /\ pc = "new"
    /\ data = Document(<< [ cm |-> <<"default", ":", "a">>, tm |-> 0, dr |-> 2 ] >>)
    /\ properties = [ state |-> Undefined, colors |-> <<>>, stroke |-> Undefined,
                      scale |-> 0, axisX |-> 0, axisY |-> 0 ]
    /\ FieldsInit

NextEvents ==
    \/ \E loaded \in BOOLEAN : Construct(FALSE, loaded)
    \/ \E loaded \in BOOLEAN : init(loaded)
    \/ destroy
    \/ \E name \in ListenedEvents, handler \in Handlers :
           registrations < MaxHandlers /\ addEventListener(name, handler)
    \/ \E name \in ListenedEvents, handler \in { <<>> } \cup { <<h>> : h \in Handlers } :
           removeEventListener(name, handler)
    \/ \E name \in ListenedEvents, handler \in Handlers : unsubscribe(name, handler)
    \/ set_colors(<<>>)
    \/ config_ready
    \/ Return

SpecEvents == InitEvents /\ [][NextEvents]_vars

\* Legacy documents whose stroke, scale and axis controls hold these values.
LegacyScales == { 50, 150 }

LegacyAxes == { <<50, 50>>, <<0, 100>>, <<100, 200>> }

LegacyDocuments ==
    { [LegacyDocument EXCEPT !.vals[3] = scale, !.vals[4] = axis] :
          scale \in LegacyScales, axis \in LegacyAxes }

\* Construction and initialization of a legacy document with an initial
\* stroke, scale and axis; 0 stands for a scale or axis that is not supplied.
InitLegacy ==
    /\ pc = "new"
    /\ data \in LegacyDocuments
    /\ properties \in [ state : { Undefined },
                         colors : { <<>> },
                         stroke : { Undefined, <<"2">>, <<"7">>, <<"50">>, <<"bold">> },
                         scale : { 0, 3, 50 },
                         axisX : { 0, 2, 50 },
                         axisY : { 0, 50 } ]
    /\ FieldsInit

NextLegacy ==
    \/ \E autoInit \in BOOLEAN, loaded \in BOOLEAN : Construct(autoInit, loaded)
    \/ \E loaded \in BOOLEAN : init(loaded)
    \/ destroy
    \/ config_ready
    \/ Return

SpecLegacy == InitLegacy /\ [][NextLegacy]_vars

\* Readiness: 'ready' handlers on a Player that is initialized, played and
\* destroyed, with a renderer that may report config_ready after destroy().
NextReady ==
    \/ \E autoInit \in BOOLEAN, loaded \in BOOLEAN : Construct(autoInit, loaded)
    \/ \E loaded \in BOOLEAN : init(loaded)
    \/ destroy
    \/ destroy_pending
    \/ registrations < MaxHandlers /\ addEventListener("ready", "h1")
    \/ play
    \/ config_ready
    \/ Return

SpecReady == InitEvents /\ [][NextReady]_vars

SpeedArgs == { 1, 2, 3 }

\* The playback speed assigned before, between and after initializations.
NextSpeed ==
    \/ \E autoInit \in BOOLEAN, loaded \in BOOLEAN : Construct(autoInit, loaded)
    \/ \E loaded \in BOOLEAN : init(loaded)
    \/ destroy
    \/ \E speed \in SpeedArgs : set_speed(speed)
    \/ play
    \/ config_ready
    \/ enterFrame
    \/ Return

SpecSpeed == InitEvents /\ [][NextSpeed]_vars

\* The customization writes on a document with controls, with handlers of
\* 'refresh' that read the values.
InitRefresh ==
    /\ pc = "new"
    /\ data = ModernDocument
    /\ properties = [ state |-> Undefined, colors |-> <<>>, stroke |-> Undefined,
                      scale |-> 0, axisX |-> 0, axisY |-> 0 ]
    /\ FieldsInit

NextRefresh ==
    \/ \E autoInit \in BOOLEAN, loaded \in BOOLEAN : Construct(autoInit, loaded)
    \/ \E loaded \in BOOLEAN : init(loaded)
    \/ destroy
    \/ registrations < MaxHandlers /\ addEventListener("refresh", Reader)
    \/ \E props \in BulkProperties : set_properties(props)
    \/ \E colors \in ColorMaps : set_colors(colors)
    \/ \E stroke \in StrokeArgs : set_stroke(stroke)
    \/ \E property \in ColorNames, value \in ColorValues : colors_set(property, value)
    \/ \E property \in ColorNames : colors_delete(property)
    \/ config_ready
    \/ Return

SpecRefresh == InitRefresh /\ [][NextRefresh]_vars

\* Documents whose markers are all valid and share names and default flags.
SharedMarkers ==
    { [ cm |-> <<"default", ":", "a">>, tm |-> 0, dr |-> 2 ],
      [ cm |-> <<"default", ":", "b">>, tm |-> 3, dr |-> 1 ],
      [ cm |-> <<"a">>, tm |-> 5, dr |-> 1 ] }

InitResolve ==
    /\ pc = "new"
    /\ data \in { Document(m) : m \in SeqsUpTo(SharedMarkers, MaxMarkers) }
    /\ properties \in InitialProperties
    /\ FieldsInit

NextResolve == \E autoInit \in BOOLEAN, loaded \in BOOLEAN : Construct(autoInit, loaded)

SpecResolve == InitResolve /\ [][NextResolve]_vars

-----------------------------------------------------------------------------
(* Properties *)

\* The renderer instances that were loaded and not destroyed.
liveInstances == { i \in 1..Len(lottie) : ~lottie[i].destroyed }

\* The operations that need a renderer instance.
GuardedOps ==
    { "play", "playFromStart", "pause", "stop", "seek", "seekToStart", "seekToEnd",
      "switchSegment", "set state", "set direction", "set loop", "set frame",
      "set colors", "set stroke", "set properties" }

\* C1: at most one renderer instance is loaded and not destroyed, and it is
\* the one the Player holds; init() on a Player that holds an instance throws
\* 'Already connected player!', loads nothing and leaves the instance as it was.
C1_AtMostOneInstance ==
    /\ [](/\ Cardinality(liveInstances) <= 1
          /\ liveInstances = IF _lottieInstance = 0 THEN {} ELSE {_lottieInstance})
    /\ [][(last'.op = "init" /\ _lottieInstance # 0)
             => /\ err' = ErrAlreadyConnected
                /\ calls' = <<>>
                /\ lottie' = lottie
                /\ _lottieInstance' = _lottieInstance]_vars

C1_Witness ==
    /\ last.op = "init" /\ err = ErrAlreadyConnected
    /\ Cardinality(liveInstances) = 1

\* C2: on a Player without a renderer instance every transport operation and
\* every assignment to state, direction, loop, frame, colors, stroke or
\* properties throws, and the selected state and the direction stay as they were.
C2_UninitializedThrows ==
    [][(last'.op \in GuardedOps /\ _lottieInstance = 0)
         => /\ err' # NoError
            /\ _state' = _state
            /\ _direction' = _direction
            /\ _lottieInstance' = 0]_vars

C2_Witness ==
    /\ last.op = "set state" /\ err = ErrNotInitialized
    /\ _lottieInstance = 0 /\ Len(lottie) > 0

\* C3: destroy() without an instance throws 'Not connected player!' and
\* changes nothing; with one it destroys the instance, sets ready to false and
\* clears the instance; init() without an instance succeeds; so every
\* instance but the one held is destroyed, and the one held is the last loaded.
C3_InitDestroyAlternate ==
    /\ [][(last'.op = "destroy" /\ _lottieInstance = 0)
             => /\ err' = ErrNotConnected
                /\ lottie' = lottie /\ _lottieInstance' = 0 /\ _ready' = _ready
                /\ _state' = _state /\ _lottieProperties' = _lottieProperties]_vars
    /\ [][(last'.op = "destroy" /\ _lottieInstance # 0)
             => /\ err' = NoError
                /\ lottie'[_lottieInstance].destroyed
                /\ _ready' = FALSE
                /\ _lottieInstance' = 0]_vars
    /\ [][(last'.op = "init" /\ _lottieInstance = 0)
             => /\ err' = NoError
                /\ _lottieInstance' = Len(lottie) + 1
                /\ Len(lottie') = Len(lottie) + 1]_vars
    /\ [](\A i \in 1..Len(lottie) :
             /\ lottie[i].destroyed <=> i # _lottieInstance
             /\ i = _lottieInstance => i = Len(lottie))

C3_Witness ==
    /\ last.op = "init" /\ err = NoError
    /\ Len(lottie) = 2 /\ lottie[1].destroyed /\ _lottieInstance = 2

\* C4: assigning a name other than the active state's on an initialized
\* Player leaves the renderer on the segment of the state now selected, at
\* the segment's first frame, and playing exactly if it was playing before.
C4_StateSwitch ==
    [][(last'.op = "set state" /\ _lottieInstance # 0
          /\ last'.arg # stateGetter(_state))
         => /\ err' = NoError
            /\ _lottieInstance' = _lottieInstance
            /\ lottie'[_lottieInstance].currentFrame = 0
            /\ lottie'[_lottieInstance].isPaused = lottie[_lottieInstance].isPaused
            /\ _state' # <<>> =>
                 /\ lottie'[_lottieInstance].firstFrame = _state'[1].time
                 /\ lottie'[_lottieInstance].totalFrames = _state'[1].duration + 1]_vars

C4_Witness ==
    /\ last.op = "set state" /\ err = NoError /\ _lottieInstance # 0
    /\ \E i \in 1..Len(calls) : calls[i].f = "setSegment"
    /\ calls[Len(calls)].f = "play"
    /\ ~lottie[_lottieInstance].isPaused
    /\ lottie[_lottieInstance].currentFrame = 0

\* C5: assigning the name the state getter reads is a no-op: no renderer
\* call, and the selected state and the renderer instance stay as they were.
C5_SameStateNoOp ==
    [][(last'.op = "set state" /\ _lottieInstance # 0
          /\ last'.arg = stateGetter(_state))
         => /\ err' = NoError
            /\ calls' = <<>>
            /\ _state' = _state
            /\ _lottieInstance' = _lottieInstance
            /\ lottie' = lottie]_vars

C5_Witness ==
    /\ last.op = "set state" /\ err = NoError /\ _lottieInstance # 0
    /\ _state # <<>> /\ last.arg = _state[1].name
    /\ calls = <<>>
    /\ ~lottie[_lottieInstance].isPaused

\* C6: a requested name that no catalog entry has selects the state flagged
\* default, or no state when none is flagged: at construction and on assignment.
C6_UnknownSelectsDefault ==
    /\ (pc = "constructed" /\ last.op = "constructor"
          /\ Truthy(properties.state)
          /\ stateByName(_availableStates, properties.state) = <<>>)
         => _state = defaultState(_availableStates)
    /\ (last.op = "set state" /\ err = NoError /\ calls # <<>>
          /\ Truthy(last.arg)
          /\ stateByName(_availableStates, last.arg) = <<>>)
         => /\ _state = defaultState(_availableStates)
            /\ (_state = <<>> => stateGetter(_state) = EmptyString)

\* C7: a document whose markers all have duration <= 0 (or that has none)
\* leaves the catalog empty and the state getter reading ''.
C7_NoValidMarkers ==
    (pc = "constructed" /\ last.op = "constructor"
       /\ \A i \in 1..Len(data.markers) : data.markers[i].dr <= 0)
      => /\ _availableStates = <<>>
         /\ stateGetter(_state) = EmptyString

\* The tokens of a string joined by colons.
RECURSIVE Join(_)
Join(tokens) ==
    IF tokens = <<>> THEN <<>>
    ELSE IF Len(tokens) = 1 THEN tokens[1]
    ELSE tokens[1] \o <<Colon>> \o Join(Tail(tokens))

Bogus == << "bogus", Colon, "foo" >>

\* C8 as stated: the marker "bogus:foo" makes the constructor fail with the
\* unsupported-flag error.
C8_BogusFails ==
    (last.op = "constructor" /\ data.markers[1].cm = Bogus)
      => pc = "failed" /\ err = ErrUnsupportedFlag

\* C8 amended: the constructor never fails; a leading token that is not a
\* recognized flag is the state's name, the tokens after it its parameters.
C8_LeadingTokenIsName ==
    last.op = "constructor" =>
      /\ pc = "constructed" /\ err = NoError
      /\ LET parts == Split(data.markers[1].cm)
         IN parts[1] \notin { <<"default">> } =>
              /\ Len(_availableStates) = 1
              /\ _availableStates[1].name = parts[1]
              /\ _availableStates[1].params = Tail(parts)
              /\ ~_availableStates[1].default

C8_Witness ==
    /\ last.op = "constructor" /\ pc = "constructed"
    /\ data.markers[1].cm = Bogus
    /\ _availableStates[1].name = <<"bogus">>
    /\ _availableStates[1].params = << <<"foo">> >>

\* C9: the marker name is its flags, then the state's name, then the state's
\* parameters, joined by colons: the name is no flag, default is set exactly
\* if there is a flag, and the parameters keep their order.
C9_MarkerGrammar ==
    (last.op = "constructor" /\ pc = "constructed"
       /\ _availableStates[1].name # Undefined)
      => LET st == _availableStates[1]
             cm == data.markers[1].cm
         IN /\ st.name \notin { <<"default">> }
            /\ \A i \in 1..Len(st.name) : st.name[i] # Colon
            /\ \A j \in 1..Len(st.params) :
                 \A i \in 1..Len(st.params[j]) : st.params[j][i] # Colon
            /\ \E k \in 0..Len(cm) :
                 /\ st.default <=> k > 0
                 /\ cm = Join([i \in 1..k |-> <<"default">>] \o <<st.name>> \o st.params)
            /\ cm = << "default", Colon, "hover-spending", Colon, "fast" >>
                 => /\ st.default
                    /\ st.name = <<"hover-spending">>
                    /\ st.params = << <<"fast">> >>

C9_Witness ==
    /\ last.op = "constructor" /\ pc = "constructed"
    /\ data.markers[1].cm = << "default", Colon, "hover-spending", Colon, "fast" >>
    /\ _availableStates[1].default
    /\ _availableStates[1].params = << <<"fast">> >>

\* The index of the j-th marker of positive duration.
validMarker(markers, j) ==
    CHOOSE i \in 1..Len(markers) :
        /\ markers[i].dr > 0
        /\ Cardinality({ h \in 1..i : markers[h].dr > 0 }) = j

\* C10: every catalog entry has duration > 0, the catalog is the markers of
\* positive duration in document order, and no operation changes it.
C10_CatalogValid ==
    /\ [](pc = "constructed" =>
             /\ \A j \in 1..Len(_availableStates) : _availableStates[j].duration > 0
             /\ Len(_availableStates)
                  = Cardinality({ i \in 1..Len(data.markers) : data.markers[i].dr > 0 })
             /\ \A j \in 1..Len(_availableStates) :
                  LET c == data.markers[validMarker(data.markers, j)]
                  IN /\ _availableStates[j].time = c.tm
                     /\ _availableStates[j].duration = c.dr)
    /\ [][pc = "constructed" => _availableStates' = _availableStates]_vars

C10_Witness ==
    /\ pc = "constructed" /\ last.op = "set state" /\ err = NoError
    /\ Len(_availableStates) = 1 /\ Len(data.markers) = 2
    /\ data.markers[1].dr <= 0

\* C11: the selected state is unset or an entry of the catalog.
C11_ActiveStateInCatalog ==
    pc = "constructed" =>
      \/ _state = <<>>
      \/ \E j \in 1..Len(_availableStates) : _availableStates[j] = _state[1]

\* C15: the segment handed to the renderer is [S.time, S.time + S.duration + 1]
\* of the selected state S: as initialSegment in init(), through setSegment on
\* a state change, through playSegments in playFromStart(); without a selected
\* state init() passes no segment, a state change resets the segments and
\* playFromStart() plays from frame 0.
C15_SegmentOfState ==
    /\ [][(last'.op \in {"init", "constructor"} /\ err' = NoError /\ calls' # <<>>)
             => /\ calls'[1].f = "loadAnimation"
                /\ calls'[1].args =
                     IF _state' # <<>>
                     THEN << _state'[1].time, _state'[1].time + _state'[1].duration + 1 >>
                     ELSE <<>>]_vars
    /\ [][(last'.op = "set state" /\ err' = NoError /\ last'.arg # stateGetter(_state))
             => IF _state' # <<>>
                THEN /\ calls'[1].f = "setSegment"
                     /\ calls'[1].args =
                          << _state'[1].time, _state'[1].time + _state'[1].duration + 1 >>
                ELSE /\ calls'[1].f = "resetSegments"
                     /\ calls'[1].args = <<>>]_vars
    /\ [][(last'.op = "playFromStart" /\ err' = NoError)
             => /\ _state' = _state
                /\ IF _state # <<>>
                   THEN /\ calls'[2].f = "playSegments"
                        /\ calls'[2].args =
                             << _state[1].time, _state[1].time + _state[1].duration + 1 >>
                   ELSE /\ calls'[2].f = "goToAndPlay"
                        /\ calls'[2].args = <<0>>]_vars

C15_Witness ==
    /\ last.op = "playFromStart" /\ err = NoError
    /\ _state # <<>> /\ _state[1].name = <<"b">>
    /\ calls[2] = [ f |-> "playSegments", args |-> <<3, 5>> ]

\* C16: the document init() hands to the renderer has the time range
\* [first.time, last.time + last.duration + 1] of the first and last catalog
\* entries, whichever state is selected; with an empty catalog it keeps the
\* time range of the supplied document.
C16_DocumentRange ==
    (last.op \in {"init", "constructor"} /\ err = NoError /\ _lottieInstance # 0)
      => LET animationData == lottie[_lottieInstance].animationData
             n == Len(_availableStates)
         IN IF n > 0
            THEN /\ animationData.ip = _availableStates[1].time
                 /\ animationData.op
                      = _availableStates[n].time + _availableStates[n].duration + 1
            ELSE /\ animationData.ip = data.ip
                 /\ animationData.op = data.op

C16_Witness ==
    /\ last.op = "init" /\ err = NoError /\ _lottieInstance # 0
    /\ Len(_availableStates) = 2
    /\ _state # <<>> /\ _state[1] = _availableStates[2]
    /\ lottie[_lottieInstance].animationData.ip = 0
    /\ lottie[_lottieInstance].animationData.op = 5

\* C17: seekToEnd() on an initialized Player, playing or paused, leaves the
\* playhead at frame frameCount, or at 0 when frameCount is negative, and the
\* Player paused.
C17_SeekToEnd ==
    [][(last'.op = "seekToEnd" /\ _lottieInstance # 0)
         => LET count == lottie[_lottieInstance].totalFrames - 1
            IN /\ err' = NoError
               /\ _lottieInstance' = _lottieInstance
               /\ lottie'[_lottieInstance].totalFrames - 1 = count
               /\ lottie'[_lottieInstance].currentFrame = IF count < 0 THEN 0 ELSE count
               /\ lottie'[_lottieInstance].isPaused]_vars

C17_Witness ==
    /\ last = Op("seekToEnd", <<TRUE>>) /\ err = NoError
    /\ lottie[_lottieInstance].isPaused
    /\ lottie[_lottieInstance].currentFrame = 2
    /\ lottie[_lottieInstance].totalFrames = 3

\* The values of the document the renderer instance of the Player holds.
liveVals == lottie[_lottieInstance].animationData.vals

\* The colour controls of the document, and its stroke controls that the
\* property catalog exposes (a legacy document keeps 'stroke' to itself).
colorControls == { i \in 1..Len(data.controls) : data.controls[i].type = "color" }

strokeControls ==
    { i \in 1..Len(data.controls) :
        \/ data.controls[i].name = <<"stroke-layers">>
        \/ data.controls[i].name = <<"stroke">> /\ data.markers # <<>> }

\* The tuple a sample colour stands for.
tupleOf(hex) == IF hex \in { Red, RedUpper } THEN <<255, 0, 0>> ELSE <<128, 128, 128>>

\* The value a colour map gives a name: <<>> when the name is not in the map.
valueIn(colors, name) ==
    IF colors = <<>> THEN <<>>
    ELSE LET entries == colors[1]
             at == { k \in 1..Len(entries) : entries[k][1] = name }
         IN IF at = {} THEN <<>> ELSE << entries[CHOOSE k \in at : TRUE][2] >>

\* What is read for a colour name from the values 'vals' of the document.
readColor(vals, property) ==
    LET found == { i \in colorControls : data.controls[i].name = property }
    IN IF found = {} THEN Undefined
       ELSE LET value == vals[data.controls[CHOOSE i \in found :
                                               \A j \in found : i <= j].path]
            IN << "#", formatByte(value[1]), formatByte(value[2]), formatByte(value[3]) >>

\* C12: assigning properties on an initialized Player replaces everything:
\* colours not given are back at their extracted values, the stroke is the one
\* given or its extracted value, and without a state given the selected state
\* is the one flagged default.  With {stroke: 2} after colors.primary was set,
\* primary reads its default, stroke reads 2, the state is the default state.
C12_BulkReplaces ==
    [][(last'.op = "set properties" /\ _lottieInstance # 0)
         => LET props == last'.arg[1]
                after == lottie'[_lottieInstance].animationData.vals
            IN /\ err' = NoError
               /\ \A i \in colorControls :
                    after[data.controls[i].path] =
                      IF valueIn(props.colors, data.controls[i].name) = <<>>
                      THEN _iconData.vals[data.controls[i].path]
                      ELSE tupleOf(valueIn(props.colors, data.controls[i].name)[1])
               /\ \A i \in strokeControls :
                    after[data.controls[i].path] =
                      IF props.stroke = <<"2">> THEN 2
                      ELSE _iconData.vals[data.controls[i].path]
               /\ ~Truthy(props.state) =>
                    _state' = First(SelectSeq(_availableStates, LAMBDA c : c.default))]_vars

C12_Witness ==
    /\ last.op = "set properties" /\ err = NoError /\ _lottieInstance # 0
    /\ data.markers # <<>>
    /\ last.arg[1] = [ colors |-> <<>>, stroke |-> <<"2">>, state |-> Undefined ]
    /\ last.arg[2][1] = << "#", "80", "80", "80" >>
    /\ readColor(liveVals, <<"primary">>) = << "#", "00", "00", "00" >>
    /\ liveVals[4] = 2
    /\ _state # <<>> /\ _state[1].name = <<"a">> /\ _state[1].default

\* C13: assigning a colour map replaces the colours: afterwards a colour
\* property named in the map holds the supplied colour and every other colour
\* property holds its extracted value, whatever was written before; null
\* resets every colour.
C13_ColorsReplace ==
    [][(last'.op = "set colors" /\ _lottieInstance # 0)
         => LET colors == last'.arg[1]
                after == lottie'[_lottieInstance].animationData.vals
            IN /\ err' = NoError
               /\ \A i \in colorControls :
                    after[data.controls[i].path] =
                      IF valueIn(colors, data.controls[i].name) = <<>>
                      THEN _iconData.vals[data.controls[i].path]
                      ELSE tupleOf(valueIn(colors, data.controls[i].name)[1])]_vars

C13_Witness ==
    /\ last.op = "set colors" /\ err = NoError /\ _lottieInstance # 0
    /\ data.markers # <<>>
    /\ last.arg[1] = << << << <<"primary">>, Red >> >> >>
    /\ last.arg[2][2] = << "#", "ff", "00", "00" >>
    /\ readColor(liveVals, <<"secondary">>) = << "#", "00", "80", "00" >>
    /\ readColor(liveVals, <<"primary">>) = << "#", "ff", "00", "00" >>
    /\ liveVals[2] = <<255, 0, 0>>

\* C14: colors[name] = X followed by delete colors[name] leaves the colour
\* reading its extracted value, and neither step changes what any colour of
\* another name reads.
C14_SetThenDelete ==
    /\ [][(last'.op = "colors set" /\ _lottieInstance # 0)
             => LET after == lottie'[_lottieInstance].animationData.vals
                IN /\ err' = NoError
                   /\ readColor(after, last'.arg[1]) # Undefined
                        => readColor(after, last'.arg[1])
                             = IF last'.arg[2] = Gray THEN Gray ELSE Red
                   /\ \A other \in ColorNames \ { last'.arg[1] } :
                        readColor(after, other) = readColor(liveVals, other)]_vars
    /\ [][(last'.op = "colors delete" /\ _lottieInstance # 0)
             => LET after == lottie'[_lottieInstance].animationData.vals
                IN /\ err' = NoError
                   /\ readColor(after, last'.arg[1]) = readColor(_iconData.vals, last'.arg[1])
                   /\ \A other \in ColorNames \ { last'.arg[1] } :
                        readColor(after, other) = readColor(liveVals, other)]_vars

C14_Witness ==
    /\ last.op = "colors delete" /\ err = NoError /\ _lottieInstance # 0
    /\ last.arg = << <<"primary">>, << "#", "ff", "00", "00" >> >>
    /\ readColor(liveVals, <<"primary">>) = << "#", "00", "00", "00" >>
    /\ readColor(liveVals, <<"secondary">>) = << "#", "80", "80", "80" >>

\* C19: the property catalog of a document without states has no property
\* named scale, axis or stroke and none whose name starts with 'state-'; the
\* catalog of a document with states is everything extraction yields.
C19_LegacyCatalog ==
    _lottieProperties # <<>> =>
      IF _availableStates = <<>>
      THEN \A i \in 1..Len(_lottieProperties[1]) :
             /\ _lottieProperties[1][i].name \notin { <<"scale">>, <<"axis">>, <<"stroke">> }
             /\ _lottieProperties[1][i].name[1] # "state-"
      ELSE /\ Len(_lottieProperties[1]) = Len(data.controls)
           /\ \A i \in 1..Len(data.controls) :
                /\ _lottieProperties[1][i].name = data.controls[i].name
                /\ _lottieProperties[1][i].path = data.controls[i].path

C19_Witness ==
    /\ data.markers = <<>> /\ Len(data.controls) = 6
    /\ last.op = "set stroke" /\ last.arg = <<"2">> /\ err = NoError
    /\ _lottieProperties # <<>>
    /\ Len(_lottieProperties[1]) = 1 /\ _lottieProperties[1][1].name = <<"primary">>

\* C20: constructing on a document without markers with an initial state S
\* leaves every state-* toggle of the working document at 0, except those
\* named state-<S in lower case>, which are 1; without an initial state the
\* toggles are as the document has them.
C20_LegacyInitialState ==
    (pc = "constructed" /\ data.markers = <<>>) =>
      \A i \in 1..Len(data.controls) :
        data.controls[i].name[1] = "state-" =>
          _iconData.vals[data.controls[i].path] =
            IF properties.state = <<"HOVER">>
            THEN IF data.controls[i].name = << "state-", "hover" >> THEN 1 ELSE 0
            ELSE data.vals[data.controls[i].path]

C20_Witness ==
    /\ pc = "constructed" /\ last.op = "constructor"
    /\ data.markers = <<>> /\ properties.state = <<"HOVER">>
    /\ data.vals[5] = 0 /\ data.vals[6] = 1
    /\ _iconData.vals[5] = 1 /\ _iconData.vals[6] = 0

\* The handlers registered under a name, as the invocations a dispatch of
\* that name owes them.
owed(name) == [ i \in 1..Len(_eventHandlers[name]) |-> << name, _eventHandlers[name][i] >> ]

\* C18: an event invokes every handler registered for its name, once per
\* registration and in registration order, and no other handler;
\* removeEventListener(name, h) removes every registration of h under that
\* name and nothing else, removeEventListener(name) removes the handlers of
\* that name only, and the function addEventListener returned removes h.
C18_EventFanOut ==
    /\ [][(last'.op \in {"init", "config_ready"} /\ err' = NoError /\ _ready')
             => invoked' = owed("ready")]_vars
    /\ [][(last'.op = "set colors" /\ err' = NoError) => invoked' = owed("refresh")]_vars
    /\ [][(last'.op \in {"removeEventListener", "unsubscribe"} /\ last'.arg[2] # <<>>)
             => LET name == last'.arg[1]
                    h == last'.arg[2][1]
                IN /\ _eventHandlers'[name] = SelectSeq(_eventHandlers[name], LAMBDA x : x # h)
                   /\ \A other \in EventNames \ {name} :
                        _eventHandlers'[other] = _eventHandlers[other]]_vars
    /\ [][(last'.op = "removeEventListener" /\ last'.arg[2] = <<>>)
             => /\ _eventHandlers'[last'.arg[1]] = <<>>
                /\ \A other \in EventNames \ {last'.arg[1]} :
                     _eventHandlers'[other] = _eventHandlers[other]]_vars

\* The path of the control of that name in the caller's document.
pathOf(name) == (CHOOSE c \in { data.controls[i] : i \in 1..Len(data.controls) } :
                     c.name = name).path

\* What the legacy branch writes: a supplied initial stroke or scale v
\* writes v * (original / 50) at its control, so 50 leaves the original; an
\* axis is written only when both axisX and axisY are supplied, and then
\* both components are scaled by the mean of the two original components
\* over 50; a property that is not supplied is not written.
LegacyScaling ==
    pc = "constructed" =>
      LET was == data.vals
          now == _iconData.vals
          stroke == pathOf(<<"stroke">>)
          scale == pathOf(<<"scale">>)
          axis == pathOf(<<"axis">>)
      IN /\ (Truthy(properties.stroke) /\ toNumber(properties.stroke) # -1)
               => now[stroke] * 50 = toNumber(properties.stroke) * was[stroke]
         /\ properties.stroke = <<"50">> => now[stroke] = was[stroke]
         /\ ~Truthy(properties.stroke) => now[stroke] = was[stroke]
         /\ properties.scale # 0 => now[scale] * 50 = properties.scale * was[scale]
         /\ properties.scale = 50 => now[scale] = was[scale]
         /\ properties.scale = 0 => now[scale] = was[scale]
         /\ (properties.axisX # 0 /\ properties.axisY # 0)
               => /\ now[axis][1] * 100 = properties.axisX * (was[axis][1] + was[axis][2])
                  /\ now[axis][2] * 100 = properties.axisY * (was[axis][1] + was[axis][2])
         /\ (properties.axisX = 0 \/ properties.axisY = 0) => now[axis] = was[axis]

\* C21: on a document without markers, a supplied initial stroke, scale or
\* axis value v writes v * (original / 50), each against its own original,
\* so that 50 leaves the original unchanged; a property that is not
\* supplied is not written.
C21_OwnOriginal ==
    pc = "constructed" =>
      LET was == data.vals
          now == _iconData.vals
          stroke == pathOf(<<"stroke">>)
          scale == pathOf(<<"scale">>)
          axis == pathOf(<<"axis">>)
      IN /\ (Truthy(properties.stroke) /\ toNumber(properties.stroke) # -1)
               => now[stroke] * 50 = toNumber(properties.stroke) * was[stroke]
         /\ ~Truthy(properties.stroke) => now[stroke] = was[stroke]
         /\ properties.scale # 0 => now[scale] * 50 = properties.scale * was[scale]
         /\ properties.scale = 0 => now[scale] = was[scale]
         /\ (properties.axisX = 50 /\ properties.axisY = 50) => now[axis] = was[axis]
         /\ (properties.axisX = 0 /\ properties.axisY = 0) => now[axis] = was[axis]

\* Whether the calls of an operation include an extraction of the catalog.
extracts(cs) == \E i \in 1..Len(cs) : cs[i].f = "extractLottieProperties"

\* The operations that read the catalog first thing.
CatalogReaders ==
    { "set colors", "set stroke", "set properties", "colors set", "colors delete" }

\* C22: once the catalog is memoized, every operation up to the next
\* destroy() leaves the memo as it is and extracts nothing; destroy() clears
\* the memo and the colors proxy; and a read that finds no memo extracts the
\* catalog from the document the Player holds.
C22_CatalogMemoized ==
    [][ /\ (_lottieProperties # <<>> /\ ~(last'.op = "destroy" /\ err' = NoError))
             => (_lottieProperties' = _lottieProperties /\ ~extracts(calls'))
        /\ (last'.op = "destroy" /\ err' = NoError)
             => (_lottieProperties' = <<>> /\ ~_colorsProxy')
        /\ (_lottieProperties = <<>> /\ last'.op \in CatalogReaders)
             => /\ extracts(calls')
                /\ _lottieProperties' =
                      << IF _availableStates = <<>>
                         THEN Filter(extractLottieProperties(_iconData), isLiveProperty)
                         ELSE extractLottieProperties(_iconData) >> ]_vars

\* A read served from the memo on the second renderer instance, after the
\* destroy() that cleared the memo of the first.
C22_Witness ==
    /\ last.op = "set colors" /\ err = NoError
    /\ Len(lottie) = 2 /\ _lottieInstance = 2
    /\ _lottieProperties # <<>> /\ _lottieProperties[1] # <<>>
    /\ ~extracts(calls)

\* C23: an initial stroke outside 1, 2, 3, light, regular, bold is treated
\* as absent: once the Player is initialized, the stroke controls hold the
\* values they hold when no initial stroke is supplied, the document's own.
C23_UnsupportedStrokeAbsent ==
    (/\ pc = "constructed"
     /\ Truthy(properties.stroke) /\ properties.stroke \notin SupportedStrokes
     /\ _lottieInstance # 0)
      => \A i \in 1..Len(data.controls) :
             isStroke(data.controls[i])
               => lottie[_lottieInstance].animationData.vals[data.controls[i].path]
                    = data.vals[data.controls[i].path]

\* C24: no operation writes into the document the caller passed.
C24_CallerDocumentUntouched == [][data' = data]_vars

\* The Player holds a legacy document it has written the initial state
\* into, and the renderer a document a colour was written into.
C24_Witness ==
    /\ pc = "constructed" /\ last.op = "set colors" /\ err = NoError
    /\ _iconData.vals # data.vals
    /\ _lottieInstance # 0
    /\ lottie[_lottieInstance].animationData.vals # _iconData.vals

\* C25: a handler that removes itself during a dispatch leaves the others
\* alone: every other handler registered under the name when the dispatch
\* started is invoked once per registration, in registration order.
C25_SelfRemovalHarmless ==
    [][\A name \in ListenedEvents :
         (\E i \in 1..Len(invoked') : invoked'[i][1] = name)
           => SelectSeq(invoked', LAMBDA e : e[1] = name /\ e[2] # Once)
                = SelectSeq(owed(name), LAMBDA e : e[2] # Once)]_vars

\* C26: init() on a loaded renderer, and config_ready, invoke the 'ready'
\* handlers; and when a 'ready' handler has run, ready is true, an instance
\* exists and play() does not throw.
C26_ReadyHandler ==
    /\ (last.op \in {"init", "config_ready"} /\ err = NoError /\ _ready)
          => invoked = owed("ready")
    /\ (\E i \in 1..Len(invoked) : invoked[i][1] = "ready")
          => (_ready /\ _lottieInstance # 0 /\ Player_play(This).err = NoError)

\* C27: ready = true only while an instance exists that is not destroyed
\* and has reported being loaded.
C27_ReadyMeansLoaded ==
    _ready => /\ _lottieInstance # 0
              /\ ~lottie[_lottieInstance].destroyed
              /\ lottie[_lottieInstance].isLoaded

\* C28: the speed configured on the instance the Player holds is the speed
\* the getter returns.
C28_SpeedInSync ==
    _lottieInstance # 0 => lottie[_lottieInstance].playSpeed = _speed

\* C29: the constructor resolves the requested initial state to the state
\* the setter resolves that name to.
C29_SameResolution ==
    (pc = "constructed" /\ last.op = "constructor")
      => _state = resolveState(_availableStates, properties.state)

\* C30: the segment of every state of the catalog lies inside the time range
\* of the document init() loads.
C30_StatesInsideRange ==
    _lottieInstance # 0 =>
      \A i \in 1..Len(_availableStates) :
          /\ lottie[_lottieInstance].animationData.ip <= _availableStates[i].time
          /\ _availableStates[i].time + _availableStates[i].duration + 1
                <= lottie[_lottieInstance].animationData.op

\* C31: playFromStart() sets the renderer's direction to 1 and plays from
\* the first frame of the active state's segment, whatever the configured
\* direction is, and leaves the configured direction as it was; play() hands
\* the configured direction to the renderer before it plays.
C31_PlayFromStartForward ==
    [][/\ (last'.op = "playFromStart" /\ err' = NoError)
             => /\ calls'[1] = [ f |-> "setDirection", args |-> <<1>> ]
                /\ lottie'[_lottieInstance'].playDirection = 1
                /\ ~lottie'[_lottieInstance'].isPaused
                /\ lottie'[_lottieInstance'].currentFrame = 0
                /\ _state # <<>> => lottie'[_lottieInstance'].firstFrame = _state[1].time
                /\ _direction' = _direction
       /\ (last'.op = "play" /\ err' = NoError)
             => /\ calls' = << [ f |-> "setDirection", args |-> <<_direction>> ],
                               [ f |-> "play", args |-> <<>> ] >>
                /\ lottie'[_lottieInstance'].playDirection = _direction
                /\ ~lottie'[_lottieInstance'].isPaused
                /\ _direction' = _direction]_vars

\* playFromStart() on a Player configured to play backward.
C31_Witness ==
    /\ last.op = "playFromStart" /\ err = NoError
    /\ _direction = -1 /\ _state # <<>>
    /\ lottie[_lottieInstance].playDirection = 1
    /\ lottie[_lottieInstance].firstFrame = _state[1].time

\* What each handler of 'refresh' reads in one dispatch that finds the
\* renderer holding vals and the Player in state st.
seen(vals, st) ==
    [ i \in 1..Len(_eventHandlers["refresh"]) |->
        << "refresh", Reader, [ vals |-> vals, state |-> st ] >> ]

\* The number of times an operation had the renderer render a frame.
renders(cs) == Cardinality({ i \in 1..Len(cs) : cs[i].f = "renderFrame" })

\* C32: assigning colors, assigning or deleting one colour and assigning
\* stroke each render once and dispatch 'refresh' once, to handlers that
\* read the values the write has left; assigning properties dispatches it
\* twice, first with the new colours and the stroke as it was, then with the
\* new stroke as well, both times with the state as it was before.
C32_RefreshAfterWrite ==
    [][LET now == lottie'[_lottieInstance'].animationData.vals
           was == lottie[_lottieInstance].animationData.vals
           isStrokePath(path) ==
               \E i \in 1..Len(data.controls) :
                   isStroke(data.controls[i]) /\ data.controls[i].path = path
           afterColors == [ path \in DOMAIN now |->
                              IF isStrokePath(path) THEN was[path] ELSE now[path] ]
       IN /\ (/\ last'.op \in {"set colors", "colors set", "colors delete", "set stroke"}
               /\ err' = NoError)
                => /\ invoked' = seen(now, _state')
                   /\ renders(calls') = 1
          /\ (last'.op = "set properties" /\ err' = NoError)
                => /\ invoked' = seen(afterColors, _state) \o seen(now, _state)
                   /\ renders(calls') = 2]_vars

\* A bulk assignment that changes the stroke and the state, with one handler
\* of 'refresh': the handler runs twice and reads the stroke before and
\* after, and the state before.
C32_Witness ==
    /\ last.op = "set properties" /\ err = NoError
    /\ Len(invoked) = 2
    /\ invoked[1][3].vals # invoked[2][3].vals
    /\ invoked[2][3].vals = lottie[_lottieInstance].animationData.vals
    /\ invoked[2][3].state # _state

====
